---------------------------- MODULE Spec2Model ----------------------------
(***************************************************************************)
(* Model of src/src/datamodel.py: the ReceiptSystem aggregate (customers,  *)
(* stores, receipt mapping), the credential methods of Customer, receipt   *)
(* processing, recommendations and the to_dict / from_dict snapshot.       *)
(*                                                                         *)
(* Conventions                                                             *)
(*   - Python None is <<>>, a present optional value v is <<v>>.           *)
(*   - Text that the code inspects character by character (emails,         *)
(*     passwords, salts, ISO timestamps, base64) is a sequence of          *)
(*     one-character strings; text that is only compared or passed on      *)
(*     (ids, names, ingredient words) is a TLA+ string.                    *)
(*   - bytes are sequences of integers in 0..255.                          *)
(*   - a datetime is [year, month, day, second, microsecond], second       *)
(*     counting from midnight.                                             *)
(*   - Receipt objects live in a heap (receiptObjs); the receipt mapping   *)
(*     holds references (indices into the heap), as the Python lists do.   *)
(***************************************************************************)
EXTENDS Integers, Sequences, FiniteSets, TLC

VARIABLES customers, plain, stores, receipts, receiptObjs, ret

vars == <<customers, plain, stores, receipts, receiptObjs, ret>>

---------------------------------------------------------------------------
(* Optional values                                                         *)

None == <<>>

Some(v) == <<v>>

\* Python truthiness of an optional str: None and "" are falsy
TruthyText(o) == o # None /\ o[1] # <<>>

---------------------------------------------------------------------------
(* Sequences                                                               *)

Range(s) == {s[i] : i \in 1..Len(s)}

Min(a, b) == IF a <= b THEN a ELSE b

\* all sequences over S with length in lo..hi
SeqsOf(S, lo, hi) == UNION {[1..n -> S] : n \in lo..hi}

\* sequences without repetition
Injective(s) == \A i, j \in 1..Len(s) : i # j => s[i] # s[j]

RECURSIVE Concat(_)
Concat(ss) == IF ss = <<>> THEN <<>> ELSE Head(ss) \o Concat(Tail(ss))

---------------------------------------------------------------------------
(* str.lower() on ASCII text                                               *)

UpperChars == <<"A","B","C","D","E","F","G","H","I","J","K","L","M",
                "N","O","P","Q","R","S","T","U","V","W","X","Y","Z">>

LowerChars == <<"a","b","c","d","e","f","g","h","i","j","k","l","m",
                "n","o","p","q","r","s","t","u","v","w","x","y","z">>

LowerChar(ch) ==
    IF \E i \in 1..26 : UpperChars[i] = ch
    THEN LowerChars[CHOOSE i \in 1..26 : UpperChars[i] = ch]
    ELSE ch

lower(text) == [i \in 1..Len(text) |-> LowerChar(text[i])]

---------------------------------------------------------------------------
(* datetime: isoformat, fromisoformat, strftime('%Y-%m-%d'), + timedelta   *)

Digits == <<"0","1","2","3","4","5","6","7","8","9">>

DigitVal(ch) == (CHOOSE i \in 1..10 : Digits[i] = ch) - 1

\* n in decimal, zero-padded to w characters
RECURSIVE Pad(_, _)
Pad(n, w) == IF w = 0 THEN <<>> ELSE Pad(n \div 10, w - 1) \o <<Digits[(n % 10) + 1]>>

RECURSIVE Num(_)
Num(s) == IF s = <<>> THEN 0
          ELSE 10 * Num(SubSeq(s, 1, Len(s) - 1)) + DigitVal(s[Len(s)])

DateText(dt) == Pad(dt.year, 4) \o <<"-">> \o Pad(dt.month, 2) \o <<"-">> \o Pad(dt.day, 2)

isoformat(dt) ==
    DateText(dt) \o <<"T">>
      \o Pad(dt.second \div 3600, 2) \o <<":">>
      \o Pad((dt.second \div 60) % 60, 2) \o <<":">>
      \o Pad(dt.second % 60, 2)
      \o (IF dt.microsecond # 0 THEN <<".">> \o Pad(dt.microsecond, 6) ELSE <<>>)

fromisoformat(s) ==
    [year        |-> Num(SubSeq(s, 1, 4)),
     month       |-> Num(SubSeq(s, 6, 7)),
     day         |-> Num(SubSeq(s, 9, 10)),
     second      |-> 3600 * Num(SubSeq(s, 12, 13)) + 60 * Num(SubSeq(s, 15, 16))
                       + Num(SubSeq(s, 18, 19)),
     microsecond |-> IF Len(s) > 19 THEN Num(SubSeq(s, 21, 26)) ELSE 0]

strftime_ymd(dt) == DateText(dt)

IsLeap(y) == (y % 4 = 0 /\ y % 100 # 0) \/ y % 400 = 0

DaysInMonth(y, m) ==
    IF m = 2 THEN (IF IsLeap(y) THEN 29 ELSE 28)
    ELSE IF m \in {4, 6, 9, 11} THEN 30 ELSE 31

NextDay(dt) ==
    IF dt.day < DaysInMonth(dt.year, dt.month) THEN [dt EXCEPT !.day = dt.day + 1]
    ELSE IF dt.month < 12 THEN [dt EXCEPT !.day = 1, !.month = dt.month + 1]
    ELSE [dt EXCEPT !.day = 1, !.month = 1, !.year = dt.year + 1]

\* dt + timedelta(days=n)
RECURSIVE AddDays(_, _)
AddDays(dt, n) == IF n = 0 THEN dt ELSE AddDays(NextDay(dt), n - 1)

---------------------------------------------------------------------------
(* base64.b64encode / b64decode (standard alphabet, '=' padding)           *)

B64Alphabet == UpperChars \o LowerChars \o Digits \o <<"+", "/">>

B64Char(n) == B64Alphabet[n + 1]

B64Val(ch) == (CHOOSE i \in 1..64 : B64Alphabet[i] = ch) - 1

RECURSIVE b64encode(_)
b64encode(bytes) ==
    IF bytes = <<>> THEN <<>>
    ELSE IF Len(bytes) = 1 THEN
        <<B64Char(bytes[1] \div 4), B64Char((bytes[1] % 4) * 16), "=", "=">>
    ELSE IF Len(bytes) = 2 THEN
        <<B64Char(bytes[1] \div 4),
          B64Char((bytes[1] % 4) * 16 + bytes[2] \div 16),
          B64Char((bytes[2] % 16) * 4), "=">>
    ELSE
        <<B64Char(bytes[1] \div 4),
          B64Char((bytes[1] % 4) * 16 + bytes[2] \div 16),
          B64Char((bytes[2] % 16) * 4 + bytes[3] \div 64),
          B64Char(bytes[3] % 64)>> \o b64encode(SubSeq(bytes, 4, Len(bytes)))

RECURSIVE b64decode(_)
b64decode(text) ==
    IF Len(text) < 4 THEN <<>>
    ELSE LET a == B64Val(text[1])
             b == B64Val(text[2])
             first == <<a * 4 + b \div 16>>
         IN  IF text[3] = "=" THEN first
             ELSE LET c == B64Val(text[3])
                      second == <<(b % 16) * 16 + c \div 4>>
                  IN  IF text[4] = "=" THEN first \o second
                      ELSE first \o second \o <<(c % 4) * 64 + B64Val(text[4])>>
                             \o b64decode(SubSeq(text, 5, Len(text)))

---------------------------------------------------------------------------
(* Customer                                                                *)

\* Customer.__init__ with the password fields and last_login left at None
Customer(customer_id, email, birthdate, gender, address, favorite_food) ==
    [customer_id      |-> customer_id,
     email            |-> email,
     birthdate        |-> birthdate,
     gender           |-> gender,
     address          |-> address,
     favorite_food    |-> favorite_food,
     purchase_history |-> <<>>,
     password_hash    |-> None,
     salt             |-> None,
     last_login       |-> None]

\* hashlib.sha256(text).hexdigest(): an ideal (collision-free) digest of the text,
\* never the empty string
sha256_hexdigest(text) == <<"#">> \o text

_hash_password(password, salt) == sha256_hexdigest(password \o salt)

\* salt is the value secrets.token_hex(16) returned
set_password(c, password, salt) ==
    [c EXCEPT !.salt = Some(salt),
              !.password_hash = Some(_hash_password(password, salt))]

verify_password(c, password) ==
    IF ~TruthyText(c.password_hash) \/ ~TruthyText(c.salt) THEN FALSE
    ELSE c.password_hash[1] = _hash_password(password, c.salt[1])

\* now is the value datetime.now() returned
record_login(c, now) == [c EXCEPT !.last_login = Some(now)]

Customer_to_dict(c) ==
    [customer_id   |-> c.customer_id,
     email         |-> c.email,
     birthdate     |-> isoformat(c.birthdate),
     gender        |-> c.gender,
     address       |-> c.address,
     favorite_food |-> c.favorite_food,
     password_hash |-> c.password_hash,
     salt          |-> c.salt,
     last_login    |-> IF c.last_login # None THEN Some(isoformat(c.last_login[1]))
                       ELSE None]

Customer_from_dict(data) ==
    [customer_id      |-> data.customer_id,
     email            |-> data.email,
     birthdate        |-> fromisoformat(data.birthdate),
     gender           |-> data.gender,
     address          |-> data.address,
     favorite_food    |-> data.favorite_food,
     purchase_history |-> <<>>,
     password_hash    |-> data.password_hash,
     salt             |-> data.salt,
     last_login       |-> IF TruthyText(data.last_login)
                          THEN Some(fromisoformat(data.last_login[1])) ELSE None]

---------------------------------------------------------------------------
(* Receipt                                                                 *)

Receipt(receipt_id, upload_date, image_data, ocr_text, ingredients, quantity, shelf_life) ==
    [receipt_id  |-> receipt_id,
     upload_date |-> upload_date,
     image_data  |-> image_data,
     ocr_text    |-> ocr_text,
     ingredients |-> ingredients,
     quantity    |-> quantity,
     shelf_life  |-> shelf_life]

\* `if self.image_data`: None and b"" are both falsy
Receipt_to_dict(r) ==
    [receipt_id  |-> r.receipt_id,
     upload_date |-> isoformat(r.upload_date),
     image_data  |-> IF r.image_data # None /\ r.image_data[1] # <<>>
                     THEN Some(b64encode(r.image_data[1])) ELSE None,
     ocr_text    |-> r.ocr_text,
     ingredients |-> r.ingredients,
     quantity    |-> r.quantity,
     shelf_life  |-> isoformat(r.shelf_life)]

Receipt_from_dict(data) ==
    [receipt_id  |-> data.receipt_id,
     upload_date |-> fromisoformat(data.upload_date),
     image_data  |-> IF TruthyText(data.image_data)
                     THEN Some(b64decode(data.image_data[1])) ELSE None,
     ocr_text    |-> data.ocr_text,
     ingredients |-> data.ingredients,
     quantity    |-> data.quantity,
     shelf_life  |-> fromisoformat(data.shelf_life)]

---------------------------------------------------------------------------
(* MenuItem and Store                                                      *)

MenuItem(item_id, name, ingredients, price) ==
    [item_id |-> item_id, name |-> name, ingredients |-> ingredients, price |-> price]

MenuItem_to_dict(m) ==
    [item_id |-> m.item_id, name |-> m.name, ingredients |-> m.ingredients,
     price |-> m.price]

MenuItem_from_dict(data) ==
    [item_id |-> data.item_id, name |-> data.name, ingredients |-> data.ingredients,
     price |-> data.price]

Store(store_id, name, location, menu_items) ==
    [store_id |-> store_id, name |-> name, location |-> location,
     menu_items |-> menu_items]

Store_to_dict(s) ==
    [store_id   |-> s.store_id,
     name       |-> s.name,
     location   |-> s.location,
     menu_items |-> [i \in 1..Len(s.menu_items) |-> MenuItem_to_dict(s.menu_items[i])]]

\* tuple(data["location"]) keeps the elements in order
Store_from_dict(data) ==
    [store_id   |-> data.store_id,
     name       |-> data.name,
     location   |-> [i \in 1..Len(data.location) |-> data.location[i]],
     menu_items |-> [i \in 1..Len(data.menu_items) |->
                        MenuItem_from_dict(data.menu_items[i])]]

---------------------------------------------------------------------------
(* ReceiptSystem: registration, lookup, update, authentication             *)
(*                                                                         *)
(* Each method is an operator from the current state (and the call's       *)
(* arguments) to the state it leaves and what it returns or raises; the    *)
(* actions further down apply them.                                        *)

\* receipts[customer_id] = []
SetKey(mapping, key, value) ==
    [k \in DOMAIN mapping \cup {key} |-> IF k = key THEN value ELSE mapping[k]]

\* raised: "" when the call returns, else the ValueError it raises
register_customer_ignoring_id(customer) ==
    IF \E i \in 1..Len(customers) : customers[i].email = customer.email
    THEN [raised |-> "email exists", customers |-> customers, receipts |-> receipts]
    ELSE [raised    |-> "",
          customers |-> Append(customers, customer),
          receipts  |-> SetKey(receipts, customer.customer_id, <<>>)]

register_customer_append_first(customer) ==
    IF \E i \in 1..Len(customers) : customers[i].customer_id = customer.customer_id
    THEN [raised |-> "ID exists", customers |-> customers, receipts |-> receipts]
    ELSE IF \E i \in 1..Len(customers) : customers[i].email = customer.email
    THEN [raised |-> "email exists", customers |-> Append(customers, customer),
          receipts |-> receipts]
    ELSE [raised    |-> "",
          customers |-> Append(customers, customer),
          receipts  |-> SetKey(receipts, customer.customer_id, <<>>)]

register_customer(customer) ==
    IF \E i \in 1..Len(customers) : customers[i].customer_id = customer.customer_id
    THEN [raised |-> "ID exists", customers |-> customers, receipts |-> receipts]
    ELSE IF \E i \in 1..Len(customers) : customers[i].email = customer.email
    THEN [raised |-> "email exists", customers |-> customers, receipts |-> receipts]
    ELSE [raised    |-> "",
          customers |-> Append(customers, customer),
          receipts  |-> SetKey(receipts, customer.customer_id, <<>>)]

add_store(store) ==
    IF \E i \in 1..Len(stores) : stores[i].store_id = store.store_id
    THEN [raised |-> "store exists", stores |-> stores]
    ELSE [raised |-> "", stores |-> Append(stores, store)]

\* index of the customer returned, 0 for None
get_customer_by_email(email) ==
    IF \E i \in 1..Len(customers) : lower(customers[i].email) = lower(email)
    THEN CHOOSE i \in 1..Len(customers) :
            /\ lower(customers[i].email) = lower(email)
            /\ \A j \in 1..(i - 1) : lower(customers[j].email) # lower(email)
    ELSE 0

update_customer(customer) ==
    IF \E i \in 1..Len(customers) : customers[i].customer_id = customer.customer_id
    THEN LET i == CHOOSE k \in 1..Len(customers) :
                     /\ customers[k].customer_id = customer.customer_id
                     /\ \A j \in 1..(k - 1) :
                            customers[j].customer_id # customer.customer_id
         IN  [found |-> TRUE, index |-> i,
              customers |-> [customers EXCEPT ![i] = customer]]
    ELSE [found |-> FALSE, index |-> 0, customers |-> customers]

authenticate_customer_login_first(email, password, now) ==
    LET i == get_customer_by_email(email)
    IN  IF i = 0 THEN [customer |-> 0, customers |-> customers]
        ELSE IF verify_password(customers[i], password)
        THEN [customer  |-> i,
              customers |-> [customers EXCEPT ![i] = record_login(customers[i], now)]]
        ELSE [customer |-> 0,
              customers |-> [customers EXCEPT ![i] = record_login(customers[i], now)]]

\* customer is the index of the customer returned, 0 for None
authenticate_customer(email, password, now) ==
    LET i == get_customer_by_email(email)
    IN  IF i = 0 THEN [customer |-> 0, customers |-> customers]
        ELSE IF verify_password(customers[i], password)
        THEN [customer  |-> i,
              customers |-> [customers EXCEPT ![i] = record_login(customers[i], now)]]
        ELSE [customer |-> 0, customers |-> customers]

---------------------------------------------------------------------------
(* ReceiptSystem.process_receipt                                           *)

sample_ingredients == <<"beef", "chicken", "lettuce", "tomato", "cheese",
                        "bread", "milk", "eggs", "rice", "pasta">>

MinIngredients == 2

MaxIngredients == 5

DefaultShelfLifeDays == 7

DairyShelfLifeDays == 3

\* what random.choices(population, k=k) can return: repetition allowed
random_choices(population, k) ==
    {[i \in 1..k |-> population[pos[i]]] : pos \in [1..k -> 1..Len(population)]}

\* what random.sample(population, k) can return: k distinct positions, in any order
random_sample(population, k) ==
    {[i \in 1..k |-> population[pos[i]]] :
        pos \in {p \in [1..k -> 1..Len(population)] : Injective(p)}}

\* str.capitalize() on the words of the vocabulary
capitalize(word) ==
    CASE word = "beef"    -> "Beef"
      [] word = "chicken" -> "Chicken"
      [] word = "lettuce" -> "Lettuce"
      [] word = "tomato"  -> "Tomato"
      [] word = "cheese"  -> "Cheese"
      [] word = "bread"   -> "Bread"
      [] word = "milk"    -> "Milk"
      [] word = "eggs"    -> "Eggs"
      [] word = "rice"    -> "Rice"
      [] word = "pasta"   -> "Pasta"
      [] OTHER            -> word

\* the generated text, one element per line; price is the text of
\* f"{random.uniform(1.99, 15.99):.2f}"
ocr_text_of(receipt_id, upload_date, ingredients, price) ==
    << <<"Receipt #", receipt_id>>, <<"Date: ", strftime_ymd(upload_date)>>, <<"Items:">> >>
      \o [i \in 1..Len(ingredients) |-> <<"- ", capitalize(ingredients[i]), " $", price>>]

shelf_life_days_both(ingredients) ==
    IF "milk" \in Range(ingredients) /\ "eggs" \in Range(ingredients)
    THEN DairyShelfLifeDays ELSE DefaultShelfLifeDays

shelf_life_days(ingredients) ==
    IF "milk" \in Range(ingredients) \/ "eggs" \in Range(ingredients)
    THEN DairyShelfLifeDays ELSE DefaultShelfLifeDays

\* the receipt as process_receipt leaves it; sample is what random.sample returned
processed(r, sample, price) ==
    [r EXCEPT !.ingredients = sample,
              !.ocr_text = ocr_text_of(r.receipt_id, r.upload_date, sample, price),
              !.shelf_life = AddDays(r.upload_date, shelf_life_days(sample))]

\* ref: the Receipt object passed; customer_id: None or Some(id)
process_receipt(ref, customer_id, sample, price) ==
    [receiptObjs |-> [receiptObjs EXCEPT ![ref] = processed(receiptObjs[ref], sample, price)],
     receipts    |-> IF /\ customer_id # None
                        /\ customer_id[1] # ""
                        /\ customer_id[1] \in DOMAIN receipts
                     THEN [receipts EXCEPT ![customer_id[1]] = Append(@, ref)]
                     ELSE receipts]

---------------------------------------------------------------------------
(* ReceiptSystem.get_recommendations                                       *)

TopMatches == 3

MinRandom == 1

MaxRandom == 3

all_menu_items == Concat([i \in 1..Len(stores) |-> stores[i].menu_items])

customer_ingredients(customer) ==
    Range(customer.favorite_food)
      \cup (IF customer.customer_id \in DOMAIN receipts
            THEN UNION {Range(receiptObjs[receipts[customer.customer_id][j]].ingredients) :
                           j \in 1..Len(receipts[customer.customer_id])}
            ELSE {})

item_matches(item, interest) == \E ing \in interest : ing \in Range(item.ingredients)

\* the sort key: sum(1 for ing in customer_ingredients if ing in x.ingredients)
overlap(item, interest) == Cardinality({ing \in interest : ing \in Range(item.ingredients)})

\* positions of the pool whose item matches, in pool order
RECURSIVE matching_from(_, _, _)
matching_from(pool, interest, i) ==
    IF i > Len(pool) THEN <<>>
    ELSE (IF item_matches(pool[i], interest) THEN <<i>> ELSE <<>>)
           \o matching_from(pool, interest, i + 1)

\* insert x behind every element whose key is >= key[x]: stable, descending
RECURSIVE insert_desc(_, _, _)
insert_desc(sorted, x, key) ==
    IF sorted = <<>> THEN <<x>>
    ELSE IF key[Head(sorted)] >= key[x]
         THEN <<Head(sorted)>> \o insert_desc(Tail(sorted), x, key)
         ELSE <<x>> \o sorted

RECURSIVE sort_fold(_, _, _)
sort_fold(sorted, rest, key) ==
    IF rest = <<>> THEN sorted
    ELSE sort_fold(insert_desc(sorted, Head(rest), key), Tail(rest), key)

\* an ascending sort read backwards: equal keys come out in reverse order
sort_reverse_ascending(xs, key) ==
    LET s == sort_fold(<<>>, [i \in 1..Len(xs) |-> xs[Len(xs) + 1 - i]], key)
    IN  s

\* list.sort(key=..., reverse=True): descending by key, equal keys keep their order
sort_reverse(xs, key) == sort_fold(<<>>, xs, key)

\* how many items the fallback draws, given k = random.randint(1, 3)
num_recommendations(pool_size, k) == Min(pool_size, k)

\* k: what random.randint(1, 3) returned; picks: what random.sample returned, as
\* positions of the pool. The result is a sequence of pool positions.
get_recommendations(customer, k, picks) ==
    LET pool     == all_menu_items
        interest == customer_ingredients(customer)
        matching == matching_from(pool, interest, 1)
        key      == [i \in 1..Len(pool) |-> overlap(pool[i], interest)]
    IN  IF pool = <<>> THEN <<>>
        ELSE IF matching # <<>>
        THEN SubSeq(sort_reverse(matching, key), 1, Min(TopMatches, Len(matching)))
        ELSE picks

---------------------------------------------------------------------------
(* ReceiptSystem.to_dict / from_dict                                       *)

System_to_dict ==
    [customers |-> [i \in 1..Len(customers) |-> Customer_to_dict(customers[i])],
     stores    |-> [i \in 1..Len(stores) |-> Store_to_dict(stores[i])],
     receipts  |-> [cid \in DOMAIN receipts |->
                      [j \in 1..Len(receipts[cid]) |->
                          Receipt_to_dict(receiptObjs[receipts[cid][j]])]]]

\* the loaded system, its receipts by value (from_dict builds new objects)
System_from_dict(data) ==
    [stores    |-> [i \in 1..Len(data.stores) |-> Store_from_dict(data.stores[i])],
     customers |-> [i \in 1..Len(data.customers) |-> Customer_from_dict(data.customers[i])],
     receipts  |-> [cid \in DOMAIN data.receipts |->
                      [j \in 1..Len(data.receipts[cid]) |->
                          Receipt_from_dict(data.receipts[cid][j])]]]

\* the system's customer list, store list and receipt mapping, receipts by value
SystemValue ==
    [stores    |-> stores,
     customers |-> customers,
     receipts  |-> [cid \in DOMAIN receipts |->
                      [j \in 1..Len(receipts[cid]) |-> receiptObjs[receipts[cid][j]]]]]

---------------------------------------------------------------------------
(* Bounds and the values the calls are made with                           *)

\* Receipt objects the caller constructs
MaxReceipts == 1

\* receipt references the mapping may hold in all
MaxStored == 2

\* the same two, for the snapshot specification
MaxSnapshotReceipts == 1

MaxSnapshotStored == 1

\* menu items per store and receipts on file, for the recommendation specification
MaxMenu == 2

MaxHistory == 1

CustomerIds == {"", "c1"}

EmailLower == <<"a", "@", "x">>

EmailUpper == <<"A", "@", "x">>

EmailOther == <<"b", "@", "x">>

EmailUnknown == <<"z", "@", "x">>

RegisterEmails == {EmailLower, EmailUpper, EmailOther}

LoginEmails == RegisterEmails \cup {EmailUnknown}

Passwords == {<<"p">>, <<"q">>}

\* values of secrets.token_hex(16)
Salts == {<<"5", "e">>, <<"0", "a">>}

\* values of datetime.now()
Times == {[year |-> 2025, month |-> 1, day |-> 2, second |-> 3723, microsecond |-> 45]}

Birthdate == [year |-> 1990, month |-> 12, day |-> 31, second |-> 0, microsecond |-> 0]

UploadDates ==
    {[year |-> 2024, month |-> 2, day |-> 27, second |-> 0, microsecond |-> 0],
     [year |-> 2023, month |-> 12, day |-> 28, second |-> 86399, microsecond |-> 999999],
     [year |-> 2023, month |-> 2, day |-> 22, second |-> 43200, microsecond |-> 0]}

SystemUploadDate == [year |-> 2024, month |-> 2, day |-> 27, second |-> 0, microsecond |-> 0]

\* image_data: absent, empty, non-empty
Images == {None, Some(<<>>), Some(<<77, 255>>)}

PriceText == "7.50"

ReceiptIds == <<"r1", "r2", "r3", "r4">>

NewCustomers(ids, emails, favorites) ==
    {Customer(id, email, Birthdate, "F", "1 Main St", fav) :
        id \in ids, email \in emails, fav \in favorites}

SystemCustomers == NewCustomers(CustomerIds, RegisterEmails, {<<"cheese">>})

AccountCustomers == NewCustomers({"c1", "c2"}, RegisterEmails, {<<"cheese">>})

SnapshotCustomers == NewCustomers({"c1", "c2"}, {EmailLower, EmailOther}, {<<>>, <<"cheese">>})

CustomerIdArgs == {None} \cup {Some(id) : id \in CustomerIds \cup {"unknown"}}

NewStores ==
    {Store("s1", "Cafe", <<13, 100>>,
           <<MenuItem("m1", "Toast", <<"bread", "cheese">>, 450),
             MenuItem("m2", "Sushi", <<"rice", "tuna">>, 1200)>>),
     Store("s2", "Diner", <<14, 101>>, <<>>)}

\* item ingredient lists and favourites for the recommendation specification
ItemIngredients == {<<"bread", "cheese">>, <<"eggs", "cheese", "milk">>, <<"tofu">>}

FavoriteFoods == {<<>>, <<"cheese">>, <<"cheese", "milk">>}

HistorySamples == {<<"rice", "pasta">>, <<"eggs", "bread">>}

ItemIds == <<"m1", "m2", "m3", "m4", "m5", "m6", "m7", "m8">>

\* a store whose items are numbered from first
StoreWith(store_id, ingredient_lists, first) ==
    Store(store_id, store_id, <<13, 100>>,
          [i \in 1..Len(ingredient_lists) |->
              MenuItem(ItemIds[first + i - 1], "item", ingredient_lists[i], 450)])

Catalogs ==
    {<<>>}
      \cup {<<StoreWith("s1", m1, 1)>> : m1 \in SeqsOf(ItemIngredients, 0, MaxMenu)}
      \cup {<<StoreWith("s1", m1, 1), StoreWith("s2", m2, Len(m1) + 1)>> :
               m1 \in SeqsOf(ItemIngredients, 0, MaxMenu),
               m2 \in SeqsOf(ItemIngredients, 0, MaxMenu)}

\* the samples drawn where the system's other operations run too
SystemSamples == {<<"rice", "pasta">>, <<"eggs", "cheese", "beef", "milk", "bread">>}

---------------------------------------------------------------------------
(* State and actions                                                       *)
(*                                                                         *)
(* customers, stores, receipts: the fields of ReceiptSystem.               *)
(* receiptObjs: the Receipt objects the caller has constructed.            *)
(* plain[i]: the password customers[i] was last given by set_password      *)
(*           (history, not a field of the program).                        *)
(* ret: the last call, its arguments and what it returned.                 *)

NoCall ==
    [op |-> "init", status |-> "ok", error |-> "", who |-> 0, ref |-> 0,
     customer_id |-> None,
     email |-> <<>>, password |-> <<>>, now |-> None, items |-> <<>>]

Init ==
    /\ customers = <<>>
    /\ plain = <<>>
    /\ stores = <<>>
    /\ receipts = <<>>
    /\ receiptObjs = <<>>
    /\ ret = NoCall

RECURSIVE TotalLen(_, _)
TotalLen(mapping, keys) ==
    IF keys = {} THEN 0
    ELSE LET k == CHOOSE k \in keys : TRUE
         IN  Len(mapping[k]) + TotalLen(mapping, keys \ {k})

StoredCount == TotalLen(receipts, DOMAIN receipts)

RegisterCustomer(customer) ==
    LET out == register_customer(customer)
    IN  /\ customers' = out.customers
        /\ receipts' = out.receipts
        /\ plain' = IF Len(out.customers) > Len(plain) THEN Append(plain, None) ELSE plain
        /\ ret' = [NoCall EXCEPT !.op = "register_customer",
                                 !.status = IF out.raised # "" THEN "ValueError" ELSE "ok",
                                 !.error = out.raised]
        /\ UNCHANGED <<stores, receiptObjs>>

UpdateCustomer(customer) ==
    LET out == update_customer(customer)
    IN  /\ customers' = out.customers
        /\ plain' = IF out.found THEN [plain EXCEPT ![out.index] = None] ELSE plain
        /\ ret' = [NoCall EXCEPT !.op = "update_customer",
                                 !.status = IF out.found THEN "True" ELSE "False",
                                 !.who = out.index]
        /\ UNCHANGED <<stores, receipts, receiptObjs>>

AddStore(store) ==
    LET out == add_store(store)
    IN  /\ stores' = out.stores
        /\ ret' = [NoCall EXCEPT !.op = "add_store",
                                 !.status = IF out.raised # "" THEN "ValueError" ELSE "ok",
                                 !.error = out.raised]
        /\ UNCHANGED <<customers, plain, receipts, receiptObjs>>

\* the caller constructs a Receipt with placeholder text, ingredients and shelf life
NewReceipt(upload_date, image_data, cap) ==
    /\ Len(receiptObjs) < cap
    /\ receiptObjs' = Append(receiptObjs,
                             Receipt(ReceiptIds[Len(receiptObjs) + 1], upload_date,
                                     image_data, <<>>, <<>>, 1, upload_date))
    /\ ret' = [NoCall EXCEPT !.op = "Receipt", !.ref = Len(receiptObjs) + 1]
    /\ UNCHANGED <<customers, plain, stores, receipts>>

ProcessReceipt(ref, customer_id, sample, cap) ==
    LET out == process_receipt(ref, customer_id, sample, PriceText)
    IN  /\ ~(StoredCount >= cap /\ out.receipts # receipts)
        /\ receiptObjs' = out.receiptObjs
        /\ receipts' = out.receipts
        /\ ret' = [NoCall EXCEPT !.op = "process_receipt", !.ref = ref,
                                 !.customer_id = customer_id]
        /\ UNCHANGED <<customers, plain, stores>>

\* customers[i].set_password(password)
SetPassword(i, password, salt) ==
    /\ customers' = [customers EXCEPT ![i] = set_password(customers[i], password, salt)]
    /\ plain' = [plain EXCEPT ![i] = Some(password)]
    /\ ret' = [NoCall EXCEPT !.op = "set_password", !.who = i]
    /\ UNCHANGED <<stores, receipts, receiptObjs>>

AuthenticateCustomer(email, password, now) ==
    LET out == authenticate_customer(email, password, now)
    IN  /\ customers' = out.customers
        /\ ret' = [NoCall EXCEPT !.op = "authenticate_customer",
                                 !.status = IF out.customer = 0 THEN "None" ELSE "Customer",
                                 !.who = out.customer,
                                 !.email = email, !.password = password,
                                 !.now = Some(now)]
        /\ UNCHANGED <<plain, stores, receipts, receiptObjs>>

Positions(n) == [i \in 1..n |-> i]

\* whether get_recommendations(customer) reaches its random fallback
UsesFallback(customer) ==
    /\ all_menu_items # <<>>
    /\ matching_from(all_menu_items, customer_ingredients(customer), 1) = <<>>

\* get_recommendations(customers[i]): k and picks are the random draws
GetRecommendations(i) ==
    \E k \in MinRandom..MaxRandom :
      \E picks \in (IF UsesFallback(customers[i])
                    THEN random_sample(Positions(Len(all_menu_items)),
                                       num_recommendations(Len(all_menu_items), k))
                    ELSE {<<>>}) :
        /\ ret' = [NoCall EXCEPT !.op = "get_recommendations", !.who = i,
                                 !.items = get_recommendations(customers[i], k, picks)]
        /\ UNCHANGED <<customers, plain, stores, receipts, receiptObjs>>

---------------------------------------------------------------------------
(* Spec: registration, update, stores and receipt processing               *)

Next ==
    \/ \E c \in SystemCustomers : RegisterCustomer(c)
    \/ \E c \in SystemCustomers : UpdateCustomer(c)
    \/ \E s \in NewStores : AddStore(s)
    \/ NewReceipt(SystemUploadDate, None, MaxReceipts)
    \/ \E ref \in 1..Len(receiptObjs), cid \in CustomerIdArgs, sample \in SystemSamples :
          ProcessReceipt(ref, cid, sample, MaxStored)

Spec == Init /\ [][Next]_vars

---------------------------------------------------------------------------
(* SpecAccounts: registration, update and the credential operations        *)

NextAccounts ==
    \/ \E c \in AccountCustomers : RegisterCustomer(c)
    \/ \E c \in AccountCustomers : UpdateCustomer(c)
    \/ \E i \in 1..Len(customers), pw \in Passwords, salt \in Salts :
          SetPassword(i, pw, salt)
    \/ \E email \in LoginEmails, pw \in Passwords, now \in Times :
          AuthenticateCustomer(email, pw, now)

SpecAccounts == Init /\ [][NextAccounts]_vars

(* SpecLogin: the same without update_customer                             *)

NextLogin ==
    \/ \E c \in AccountCustomers : RegisterCustomer(c)
    \/ \E i \in 1..Len(customers), pw \in Passwords, salt \in Salts :
          SetPassword(i, pw, salt)
    \/ \E email \in LoginEmails, pw \in Passwords, now \in Times :
          AuthenticateCustomer(email, pw, now)

SpecLogin == Init /\ [][NextLogin]_vars

(* SpecSnapshot: the operations that populate a system to be saved         *)

NextSnapshot ==
    \/ \E c \in SnapshotCustomers : RegisterCustomer(c)
    \/ \E s \in NewStores : AddStore(s)
    \/ \E img \in Images : NewReceipt(SystemUploadDate, img, MaxSnapshotReceipts)
    \/ \E ref \in 1..Len(receiptObjs), cid \in {None, Some("c1")}, sample \in SystemSamples :
          ProcessReceipt(ref, cid, sample, MaxSnapshotStored)
    \/ \E i \in 1..Len(customers) : SetPassword(i, <<"p">>, <<"5", "e">>)
    \/ \E email \in {EmailLower, EmailUnknown}, now \in Times :
          AuthenticateCustomer(email, <<"p">>, now)

SpecSnapshot == Init /\ [][NextSnapshot]_vars

(* SpecReceipt: one process_receipt call on a fresh receipt, every sample  *)

InitReceipt ==
    /\ customers = <<>>
    /\ plain = <<>>
    /\ stores = <<>>
    /\ receipts = <<>>
    /\ \E d \in UploadDates :
          receiptObjs = <<Receipt("r1", d, None, <<>>, <<>>, 1, d)>>
    /\ ret = NoCall

\* every sample random.sample(sample_ingredients, random.randint(2, 5)) can return,
\* enumerated by the positions drawn
NextReceipt ==
    /\ ret.op = "init"
    /\ \E k \in MinIngredients..MaxIngredients :
          \E pos \in [1..k -> 1..Len(sample_ingredients)] :
             /\ Injective(pos)
             /\ ProcessReceipt(1, None, [i \in 1..k |-> sample_ingredients[pos[i]]],
                               MaxStored)

SpecReceipt == InitReceipt /\ [][NextReceipt]_vars

(* SpecRecommend: one get_recommendations call on a populated system       *)

InitRecommend ==
    /\ \E fav \in FavoriteFoods :
          customers = <<Customer("c1", EmailLower, Birthdate, "F", "1 Main St", fav)>>
    /\ plain = <<None>>
    /\ stores \in Catalogs
    /\ \E history \in SeqsOf(HistorySamples, 0, MaxHistory) :
          /\ receiptObjs = [j \in 1..Len(history) |->
                              processed(Receipt(ReceiptIds[j], SystemUploadDate, None,
                                                <<>>, <<>>, 1, SystemUploadDate),
                                        history[j], PriceText)]
          /\ receipts = [cid \in {"c1"} |-> [j \in 1..Len(history) |-> j]]
    /\ ret = NoCall

NextRecommend ==
    /\ ret.op = "init"
    /\ GetRecommendations(1)

SpecRecommend == InitRecommend /\ [][NextRecommend]_vars

---------------------------------------------------------------------------
(* Properties                                                              *)

\* C1: no two distinct entries of the customer list have emails that are equal
\* when compared case-insensitively.
C1_EmailsUniqueIgnoringCase ==
    \A i, j \in 1..Len(customers) :
        i # j => lower(customers[i].email) # lower(customers[j].email)

\* C2: no two distinct entries of the customer list share a customer_id, and every
\* customer_id in the customer list is a key of the receipt mapping.
C2_UniqueIdsWithReceiptLists ==
    /\ \A i, j \in 1..Len(customers) :
          i # j => customers[i].customer_id # customers[j].customer_id
    /\ \A i \in 1..Len(customers) : customers[i].customer_id \in DOMAIN receipts

\* two customers, one of them replaced by update_customer, and a receipt on file
C2_Witness ==
    /\ Len(customers) = 2
    /\ ret.op = "update_customer"
    /\ ret.status = "True"
    /\ StoredCount > 0

\* C3: a register_customer call that raises (duplicate customer_id or duplicate exact
\* email) and an add_store call that raises (store_id present) leave the customer
\* list, the store list and the receipt mapping as they were before the call.
C3_FailedCallChangesNothing ==
    [][(ret'.op \in {"register_customer", "add_store"} /\ ret'.status = "ValueError")
          => (customers' = customers /\ stores' = stores /\ receipts' = receipts)]_vars

\* a registration refused for its email, its customer_id being new
C3_Witness ==
    /\ ret.op = "register_customer"
    /\ ret.status = "ValueError"
    /\ ret.error = "email exists"
    /\ Len(customers) >= 1
    /\ Len(stores) >= 1

\* C4: process_receipt(receipt, customer_id) appends the receipt once at the end of
\* the customer's list, leaving the other lists alone, when customer_id is provided
\* and is a key of the receipt mapping; otherwise the mapping is unchanged.
C4_StoredIffKnownCustomer ==
    [][ret'.op = "process_receipt"
          => IF ret'.customer_id # None /\ ret'.customer_id[1] \in DOMAIN receipts
             THEN receipts' = [receipts EXCEPT ![ret'.customer_id[1]] = Append(@, ret'.ref)]
             ELSE receipts' = receipts]_vars

\* the customers an email denotes: those whose email equals it ignoring case
C5_Matching(email) ==
    {i \in 1..Len(customers) : lower(customers[i].email) = lower(email)}

\* the call is made with a password that is not the one set for the first customer
\* the email denotes
C5_WrongPassword(email, password) ==
    /\ C5_Matching(email) # {}
    /\ LET first == CHOOSE i \in C5_Matching(email) : \A j \in C5_Matching(email) : i <= j
       IN  plain[first] # Some(password)

\* C5: authenticate_customer with an email matching no customer, and with a known
\* email and a wrong password, return the same not-authenticated result and change
\* nothing; last_login changes only on a successful authentication, and only for the
\* customer returned.
C5_FailedLoginIsSilent ==
    [][/\ ret'.op = "authenticate_customer"
          => /\ (C5_Matching(ret'.email) = {} \/ C5_WrongPassword(ret'.email, ret'.password))
                   => /\ ret'.status = "None"
                      /\ ret'.who = 0
                      /\ customers' = customers
                      /\ stores' = stores
                      /\ receipts' = receipts
                      /\ receiptObjs' = receiptObjs
             /\ \A i \in 1..Len(customers) :
                   customers'[i] # customers[i]
                      => /\ ret'.who = i
                         /\ customers'[i] = [customers[i] EXCEPT !.last_login = ret'.now]
       /\ ret'.op \notin {"authenticate_customer", "update_customer"}
          => \A i \in 1..Len(customers) :
                customers'[i].last_login = customers[i].last_login]_vars

\* a login refused for its password, for a customer who has one and has logged in
C5_Witness ==
    /\ ret.op = "authenticate_customer"
    /\ ret.status = "None"
    /\ \E i \in 1..Len(customers) :
          /\ lower(customers[i].email) = lower(ret.email)
          /\ plain[i] # None
          /\ plain[i] # Some(ret.password)
          /\ customers[i].last_login # None

\* C6: after process_receipt, shelf_life is upload_date + 3 days if the sample
\* (2 to 5 distinct words of the vocabulary) contains milk or eggs and
\* upload_date + 7 days otherwise, and upload_date is unchanged.
C6_ShelfLifeThreeOrSeven ==
    [][ret'.op = "process_receipt"
          => LET before == receiptObjs[ret'.ref]
                 after  == receiptObjs'[ret'.ref]
                 dairy  == \E k \in 1..Len(after.ingredients) :
                               after.ingredients[k] \in {"milk", "eggs"}
             IN  /\ Len(after.ingredients) \in 2..5
                 /\ Injective(after.ingredients)
                 /\ Range(after.ingredients) \subseteq Range(sample_ingredients)
                 /\ after.upload_date = before.upload_date
                 /\ after.shelf_life = AddDays(before.upload_date, IF dairy THEN 3 ELSE 7)]_vars

\* a sample with eggs but no milk, its shelf life in the month after the upload
C6_Witness ==
    /\ ret.op = "process_receipt"
    /\ LET r == receiptObjs[ret.ref]
       IN  /\ "eggs" \in Range(r.ingredients)
           /\ "milk" \notin Range(r.ingredients)
           /\ Len(r.ingredients) = 5
           /\ r.upload_date.month = 2
           /\ r.shelf_life = [r.upload_date EXCEPT !.month = 3, !.day = 1]

\* the interest set of customers[1]: favorite_food and the ingredients of the
\* receipts on file under the customer's id
C7_Interest ==
    {customers[1].favorite_food[k] : k \in 1..Len(customers[1].favorite_food)}
      \cup UNION {{receiptObjs[ref].ingredients[k] : k \in 1..Len(receiptObjs[ref].ingredients)} :
                     ref \in {receipts[customers[1].customer_id][j] :
                                 j \in 1..Len(receipts[customers[1].customer_id])}}

\* the number of ingredients the item at pool position p shares with the interest set
C7_Count(p) ==
    Cardinality({ing \in C7_Interest :
                    \E k \in 1..Len(all_menu_items[p].ingredients) :
                        all_menu_items[p].ingredients[k] = ing})

C7_MatchingPositions == {p \in 1..Len(all_menu_items) : C7_Count(p) >= 1}

\* a comes before b: larger count, or equal count and earlier in the pool
C7_Before(a, b) ==
    \/ C7_Count(a) > C7_Count(b)
    \/ C7_Count(a) = C7_Count(b) /\ a < b

\* C7: when some item matches, get_recommendations returns the first min(3, matches)
\* of the matching items ordered by descending overlap count, ties in pool order.
C7_TopThreeRanked ==
    (ret.op = "get_recommendations" /\ C7_MatchingPositions # {})
       => /\ Len(ret.items) = Min(3, Cardinality(C7_MatchingPositions))
          /\ \A k \in 1..Len(ret.items) : ret.items[k] \in C7_MatchingPositions
          /\ \A k, l \in 1..Len(ret.items) : k < l => C7_Before(ret.items[k], ret.items[l])
          /\ \A m \in C7_MatchingPositions \ Range(ret.items) :
                \A k \in 1..Len(ret.items) : C7_Before(ret.items[k], m)

\* four matching items: three returned out of pool order, two of them tied, and the
\* one left out tied with the last one returned
C7_Witness ==
    /\ ret.op = "get_recommendations"
    /\ Cardinality(C7_MatchingPositions) = 4
    /\ Len(ret.items) = 3
    /\ ret.items[1] > ret.items[2]
    /\ C7_Count(ret.items[2]) = C7_Count(ret.items[3])
    /\ \E m \in C7_MatchingPositions \ Range(ret.items) :
          C7_Count(m) = C7_Count(ret.items[3])

\* C8: with a non-empty pool and no matching item, get_recommendations returns n
\* items, 1 <= n <= min(3, pool size), from n different positions of the pool; with
\* an empty pool it returns an empty sequence.
C8_FallbackSample ==
    ret.op = "get_recommendations"
       => /\ all_menu_items = <<>> => ret.items = <<>>
          /\ (all_menu_items # <<>> /\ C7_MatchingPositions = {})
                => /\ Len(ret.items) >= 1
                   /\ Len(ret.items) <= Min(3, Len(all_menu_items))
                   /\ \A k \in 1..Len(ret.items) : ret.items[k] \in 1..Len(all_menu_items)
                   /\ \A k, l \in 1..Len(ret.items) : k # l => ret.items[k] # ret.items[l]

\* a fallback of three items out of four, not in pool order, for a customer with
\* favourites and a receipt on file
C8_Witness ==
    /\ ret.op = "get_recommendations"
    /\ Len(all_menu_items) = 4
    /\ C7_Interest # {}
    /\ C7_MatchingPositions = {}
    /\ Len(ret.items) = 3
    /\ ret.items[1] > ret.items[2]

\* C9: from_dict(to_dict(system)) has a customer list, store list and receipt
\* mapping field-wise equal to the system's.
C9_RoundTrip == System_from_dict(System_to_dict) = SystemValue

\* C10: for every registered customer c whose password was last set to p,
\* authenticate_customer(c.email, p) returns c and records the login on c.
C10_OwnPasswordLogsIn ==
    ret.op = "authenticate_customer"
       => \A i \in 1..Len(customers) :
             (customers[i].email = ret.email /\ plain[i] = Some(ret.password))
                => /\ ret.who = i
                   /\ customers[i].last_login = ret.now

===========================================================================
